---- MODULE Spec2Model ----
(***************************************************************************)
(* Model of engineering_health_check/confluence_checker.py: one run of     *)
(* main(): load_config, make_session, then analyze() consuming the         *)
(* generator iterate_pages(), then the summary or the error exit.          *)
(*                                                                         *)
(* Python values are encoded uniformly:                                    *)
(*   - an optional value (dict.get(k) that may be None) is None == {}      *)
(*     or Some(v) == {v};                                                  *)
(*   - a JSON list is a sequence; a record of a page is identified by      *)
(*     <<request number, field name, position>>;                           *)
(*   - a datetime is [local |-> seconds on the wall clock,                 *)
(*     utcoffset |-> None (naive) or Some(offset seconds)].                *)
(* The content of a page record is read only by get_last_modified, so it   *)
(* is drawn when the record is consumed (action Yield).  The locals of one *)
(* iteration of the paginator's loop (data, results, item) are dead at the *)
(* loop head, where they are reset.                                        *)
(***************************************************************************)
EXTENDS Integers, Sequences, FiniteSets, TLC

\* ---------------------------------------------------------------- bounds
MaxRequests == 3      \* requests one scan may issue in the model
MaxLimit == 2         \* largest --limit tried
MaxThreshold == 1     \* largest --threshold tried (days)
NowSeconds == 1000000 \* the clock reading taken by analyze (seconds)

\* timedelta(days=threshold_days): one day in seconds
SecondsPerDay == 86400

VARIABLES
  pc,             \* position of main(): main, request, yield, return, print, except, crashed, exited
  configFile,     \* the YAML config file on disk (input)
  config,         \* cfg = load_config(args.config)
  session,        \* session = make_session(cfg): [auth |-> ...]
  threshold_days, \* args.threshold
  limit,          \* args.limit
  now,            \* analyze: now
  start,          \* iterate_pages: start
  request,        \* the last GET issued: [start, limit, auth]
  nreq,           \* number of GETs issued
  data,           \* the last response: [status, body]
  results,        \* iterate_pages: results
  idx,            \* records of `results` already yielded
  item,           \* analyze: loop variable item
  total,          \* analyze: total
  stale,          \* analyze: stale
  history,        \* observer: records yielded and received so far (not program state)
  result,         \* analyze's return value
  stdout,         \* lines printed by main
  exit_status     \* process exit status (None while running)

vars == <<pc, configFile, config, session, threshold_days, limit, now, start,
          request, nreq, data, results, idx, item, total, stale, history,
          result, stdout, exit_status>>

None == {}
Some(v) == {v}
Val(o) == CHOOSE v \in o : TRUE

\* Python truthiness of an optional list: None and [] are falsy.
Truthy(o) == o # None /\ Val(o) # <<>>

\* Python `a or b`: a when a is truthy, else b.
Or(a, b) == IF Truthy(a) THEN a ELSE b

\* ---------------------------------------------------------- configuration
EmptyDict == [username |-> None, api_token |-> None]

ConfigFiles ==
  { [exists |-> FALSE, yaml |-> None],
    [exists |-> TRUE, yaml |-> None],
    [exists |-> TRUE, yaml |-> Some(EmptyDict)],
    [exists |-> TRUE, yaml |-> Some([username |-> Some("bob"), api_token |-> None])],
    [exists |-> TRUE, yaml |-> Some([username |-> Some("bob"), api_token |-> Some("tok")])] }

\* load_config: {} when the file does not exist or holds no data.
load_config(file) ==
  IF ~file.exists THEN EmptyDict
  ELSE IF file.yaml = None THEN EmptyDict ELSE Val(file.yaml)

\* make_session, line 65: session.auth is always assigned the pair of the two
\* lookups, (None, None) when the keys are missing.
make_session(cfg) == [auth |-> Some(<<cfg.username, cfg.api_token>>)]

\* ------------------------------------------------------------- responses
Records(r, field, n) == [i \in 1..n |-> <<r, field, i>>]

\* `_links`: absent, a mapping without `next`, a mapping with `next`.  A JSON
\* null for `_links` or for a records field is not among the inputs.
Links == {None, Some([next |-> None]), Some([next |-> Some("/next")])}

Sizes(lim) == {None, Some(0), Some(lim)}

\* Bodies that carry their records under `results` only.
ResultsBodies(r, lim, sizes, links) ==
  [results : {Some(Records(r, "results", n)) : n \in 0..lim},
   page    : {None},
   values  : {None},
   size    : sizes,
   links   : links]

\* Bodies of the older API shapes: `results` absent or empty, records (or an
\* empty list) under `page` and/or `values`.
FallbackBodies(r, sizes, links) ==
  [results : {None, Some(<<>>)},
   page    : {None, Some(<<>>), Some(Records(r, "page", 1))},
   values  : {None, Some(Records(r, "values", 1))},
   size    : sizes,
   links   : links]

\* The bodies the pagination claims are checked on.
PagingBodies(r, lim) ==
  ResultsBodies(r, lim, Sizes(lim), Links)
    \cup FallbackBodies(r, {None, Some(1)}, {None, Some([next |-> Some("/next")])})

\* The bodies the freshness claims are checked on.
PlainBodies(r, lim) ==
  ResultsBodies(r, lim, {None}, {None, Some([next |-> Some("/next")])})

NoBody == [results |-> None, page |-> None, values |-> None, size |-> None, links |-> None]

NoData == [status |-> "none", body |-> NoBody]

Responses(bodies) ==
  {[status |-> "ok", body |-> b] : b \in bodies}
    \cup {[status |-> s, body |-> NoBody] : s \in {"http_error", "network_error"}}

\* session.get raises on a transport failure (requests.RequestException)
get_raises(status) == status = "network_error"

\* Mutant: the status of the response is never checked.
raise_for_status_unchecked(status) == FALSE

\* resp.raise_for_status() raises requests.HTTPError on 4xx/5xx
raise_for_status(status) == status = "http_error"

\* lines 109-111: results = data.get("results") or data.get("page") or data.get("values");
\* if results is None: results = data.get("results", [])
SelectResults(body) ==
  LET r == Or(Or(body.results, body.page), body.values)
  IN IF r = None
       THEN (IF body.results = None THEN <<>> ELSE Val(body.results))
       ELSE Val(r)

\* Mutant: the offset always advances by the number of records returned.
NextStart_by_count(s, size, res) == s + Len(res)

\* lines 116-122: the next offset
NextStart(s, size, res) == IF size = None THEN s + Len(res) ELSE s + Val(size)

\* lines 117-119: break when size is absent and nothing was returned
BreakOnEmpty(size, res) == size = None /\ res = <<>>

\* line 124: links = data.get("_links", {}); links.get("next")
HasNext(links) ==
  LET m == IF links = None THEN [next |-> None] ELSE Val(links)
  IN m.next # None

\* Mutant: only an empty page without a next link ends the scan.
ShouldBreak_on_empty_only(links, res, lim) == ~HasNext(links) /\ res = <<>>

\* line 125
ShouldBreak(links, res, lim) == ~HasNext(links) /\ (res = <<>> \/ Len(res) < lim)

\* ------------------------------------------------------------ page records
\* The `version` field of a record: absent, null, {} (all falsy), a truthy value
\* that is not a mapping ("scalar"), or a mapping ("dict") whose `when` is absent,
\* "" (falsy), a truthy non-string ("number"), a string that is no ISO-8601
\* timestamp ("text"), or an ISO-8601 string ("iso": wall-clock seconds plus the
\* offset suffix "", "Z" or "+01:00").
NoWhen(v) == [version |-> v, when |-> "absent", local |-> 0, tz |-> ""]
BadWhen(w) == [version |-> "dict", when |-> w, local |-> 0, tz |-> ""]
IsoWhen(t, z) == [version |-> "dict", when |-> "iso", local |-> t, tz |-> z]

OffsetOf(z) == IF z = "+01:00" THEN 3600 ELSE 0

\* The instants one second before, at and one second after now - days.
Instants(n, days) == {n - days * SecondsPerDay + d : d \in {-1, 0, 1}}

\* The record contents the freshness claims are checked on.
AllContents(n, days) ==
  {NoWhen(v) : v \in {"absent", "null", "empty", "scalar", "dict"}}
    \cup {BadWhen(w) : w \in {"empty", "number", "text"}}
    \cup {IsoWhen(i + OffsetOf(z), z) : i \in Instants(n, days), z \in {"", "Z", "+01:00"}}

\* The record contents the pagination claims are checked on.
PlainContents(n) == {NoWhen("absent"), IsoWhen(n, "Z")}

NoItem == [id |-> <<0, "", 0>>, content |-> NoWhen("absent")]

\* when.replace("Z", "+00:00")
ReplaceZ(z) == IF z = "Z" THEN "+00:00" ELSE z

\* datetime.fromisoformat on the offset suffix: None stands for ValueError
\* (a bare "Z" is rejected by fromisoformat before Python 3.11).
fromisoformat(t, z) ==
  CASE z = "" -> Some([local |-> t, utcoffset |-> None])
    [] z = "+00:00" -> Some([local |-> t, utcoffset |-> Some(0)])
    [] z = "+01:00" -> Some([local |-> t, utcoffset |-> Some(3600)])
    [] OTHER -> None

\* get_last_modified: [raised, value]; raised is the AttributeError of
\* version.get on a truthy non-mapping, which no handler catches.  The
\* AttributeError of when.replace on a non-string and the ValueError of
\* fromisoformat are caught (lines 150-153) and give None.
get_last_modified(c) ==
  IF c.version = "scalar"
    THEN [raised |-> TRUE, value |-> None]
    ELSE LET when == IF c.version = "dict" THEN c.when ELSE "absent"
         IN IF when \in {"absent", "empty"}
              THEN [raised |-> FALSE, value |-> None]
              ELSE IF when \in {"number", "text"}
                THEN [raised |-> FALSE, value |-> None]
                ELSE [raised |-> FALSE, value |-> fromisoformat(c.local, ReplaceZ(c.tz))]

\* ---------------------------------------------------------------- analyze
\* line 191
timedelta(days) == days * SecondsPerDay

\* lines 201-202: a naive datetime is taken as UTC
EnsureAware(lm) == IF lm.utcoffset = None THEN [lm EXCEPT !.utcoffset = Some(0)] ELSE lm

\* now - lm on aware datetimes, in seconds
Elapsed(n, lm) == (n.local - Val(n.utcoffset)) - (lm.local - Val(lm.utcoffset))

\* Mutant: the comparison is not strict.
IsStale_not_strict(n, lm, threshold) == Elapsed(n, lm) >= threshold

\* line 203
IsStale(n, lm, threshold) == Elapsed(n, lm) > threshold

\* Mutant: a record without timestamp is counted twice.
StaleAfter_twice(st, lm, n, threshold) ==
  IF lm = None THEN st + 2
  ELSE IF IsStale(n, EnsureAware(Val(lm)), threshold) THEN st + 1 ELSE st

\* lines 196-204: the value of stale after one record
StaleAfter(st, lm, n, threshold) ==
  IF lm = None THEN st + 1
  ELSE IF IsStale(n, EnsureAware(Val(lm)), threshold) THEN st + 1 ELSE st

\* line 194
TotalAfter(tot) == tot + 1

\* Mutant: the division is not guarded against total = 0.
percent_stale_unguarded(st, tot) == [num |-> st * 100, den |-> tot]

\* line 206: the float stale / total * 100.0, kept as the fraction num / den
percent_stale(st, tot) ==
  IF tot # 0 THEN [num |-> st * 100, den |-> tot] ELSE [num |-> 0, den |-> 1]

NoResult == [total |-> 0, stale |-> 0, percent_stale |-> [num |-> 0, den |-> 1]]

\* ------------------------------------------------------------------- Init
\* The state at the entry of main(), for command-line values T (--threshold)
\* and L (--limit) and a config file drawn from `files`.
InitWith(files, thresholds, limits) ==
  /\ pc = "main"
  /\ configFile \in files
  /\ config = EmptyDict
  /\ session = [auth |-> None]
  /\ threshold_days \in thresholds
  /\ limit \in limits
  /\ now = [local |-> NowSeconds, utcoffset |-> Some(0)]
  /\ start = 0
  /\ request = [start |-> 0, limit |-> 0, auth |-> None]
  /\ nreq = 0
  /\ data = NoData
  /\ results = <<>>
  /\ idx = 0
  /\ item = NoItem
  /\ total = 0
  /\ stale = 0
  /\ history = [yielded |-> 0, page |-> <<>>, received |-> 0, full |-> TRUE]
  /\ result = NoResult
  /\ stdout = <<>>
  /\ exit_status = None

\* main, lines 226-227, up to the first iteration of the scan
Main ==
  /\ pc = "main"
  /\ config' = load_config(configFile)
  /\ session' = make_session(config')
  /\ pc' = "request"
  /\ UNCHANGED <<configFile, threshold_days, limit, now, start, request, nreq, data,
                 results, idx, item, total, stale, history, result, stdout, exit_status>>

\* The records a response carries under its first present field.
FirstPresent(body) ==
  IF body.results # None THEN Val(body.results)
  ELSE IF body.page # None THEN Val(body.page)
  ELSE IF body.values # None THEN Val(body.values)
  ELSE <<>>

\* iterate_pages, lines 100-111: one GET and the choice of `results`
Request(bodies) ==
  /\ pc = "request"
  /\ nreq < MaxRequests
  /\ \E resp \in Responses(bodies) :
       /\ request' = [start |-> start, limit |-> limit, auth |-> session.auth]
       /\ nreq' = nreq + 1
       /\ data' = resp
       /\ IF get_raises(resp.status) \/ raise_for_status(resp.status)
            THEN /\ pc' = "except"
                 /\ UNCHANGED <<results, idx, history>>
            ELSE /\ pc' = "yield"
                 /\ results' = SelectResults(resp.body)
                 /\ idx' = 0
                 /\ history' = [history EXCEPT
                                  !.received = @ + Len(FirstPresent(resp.body))]
  /\ UNCHANGED <<configFile, config, session, threshold_days, limit, now, start, item,
                 total, stale, result, stdout, exit_status>>

\* lines 113-114 and the body of analyze's loop, lines 194-204
Yield(contents) ==
  /\ pc = "yield"
  /\ idx < Len(results)
  /\ \E c \in contents :
       LET it == [id |-> results[idx + 1], content |-> c]
           lm == get_last_modified(c)
       IN /\ item' = it
          /\ idx' = idx + 1
          /\ total' = TotalAfter(total)
          /\ history' = [history EXCEPT !.yielded = @ + 1, !.page = Append(@, it.id)]
          /\ IF lm.raised
               THEN /\ pc' = "crashed"
                    /\ exit_status' = Some(1)
                    /\ UNCHANGED stale
               ELSE /\ stale' = StaleAfter(stale, lm.value, now, timedelta(threshold_days))
                    /\ UNCHANGED <<pc, exit_status>>
  /\ UNCHANGED <<configFile, config, session, threshold_days, limit, now, start, request,
                 nreq, data, results, result, stdout>>

\* lines 116-126: advance the offset and decide whether to go on
Advance ==
  /\ pc = "yield"
  /\ idx = Len(results)
  /\ IF BreakOnEmpty(data.body.size, results)
       THEN /\ pc' = "return"
            /\ UNCHANGED <<start, data, results, idx, item, history>>
       ELSE /\ start' = NextStart(start, data.body.size, results)
            /\ IF ShouldBreak(data.body.links, results, limit)
                 THEN /\ pc' = "return"
                      /\ UNCHANGED <<data, results, idx, item, history>>
                 ELSE /\ pc' = "request"
                      /\ data' = NoData
                      /\ results' = <<>>
                      /\ idx' = 0
                      /\ item' = NoItem
                      /\ history' = [history EXCEPT
                                       !.page = <<>>,
                                       !.full = /\ @
                                                /\ SelectResults(data.body) = FirstPresent(data.body)
                                                /\ Len(FirstPresent(data.body)) = limit]
  /\ UNCHANGED <<configFile, config, session, threshold_days, limit, now, request, nreq,
                 total, stale, result, stdout, exit_status>>

\* lines 206-207
Return ==
  /\ pc = "return"
  /\ result' = [total |-> total, stale |-> stale, percent_stale |-> percent_stale(stale, total)]
  /\ pc' = "print"
  /\ UNCHANGED <<configFile, config, session, threshold_days, limit, now, start, request,
                 nreq, data, results, idx, item, total, stale, history, stdout, exit_status>>

\* main, lines 238-240
PrintSummary ==
  /\ pc = "print"
  /\ stdout' = <<"Total pages", "Stale pages", "Percent stale">>
  /\ exit_status' = Some(0)
  /\ pc' = "exited"
  /\ UNCHANGED <<configFile, config, session, threshold_days, limit, now, start, request,
                 nreq, data, results, idx, item, total, stale, history, result>>

\* main, lines 231-236
Except ==
  /\ pc = "except"
  /\ stdout' = <<IF data.status = "http_error" THEN "HTTP error" ELSE "Network error">>
  /\ exit_status' = Some(1)
  /\ pc' = "exited"
  /\ UNCHANGED <<configFile, config, session, threshold_days, limit, now, start, request,
                 nreq, data, results, idx, item, total, stale, history, result>>

\* ---------------------------------------------------------- specifications
\* Spec: the scan against a server of any response shape (pagination claims).
Init == InitWith(ConfigFiles, {0}, 1..MaxLimit)

Next ==
  \/ Main
  \/ Request(PagingBodies(nreq + 1, limit))
  \/ Yield(PlainContents(now.local))
  \/ Advance
  \/ Return
  \/ PrintSummary
  \/ Except

Spec == Init /\ [][Next]_vars

\* SpecFresh: the scan over records of any content (freshness claims).
InitFresh == InitWith({[exists |-> FALSE, yaml |-> None]}, 0..MaxThreshold, {MaxLimit})

NextFresh ==
  \/ Main
  \/ Request(PlainBodies(nreq + 1, limit))
  \/ Yield(AllContents(now.local, threshold_days))
  \/ Advance
  \/ Return
  \/ PrintSummary
  \/ Except

SpecFresh == InitFresh /\ [][NextFresh]_vars

\* ================================================================== claims
Failed == data.status \in {"http_error", "network_error"}

Summary == <<"Total pages", "Stale pages", "Percent stale">>

Returned == pc = "print" \/ exit_status = Some(0)

\* A step of Yield: analyze consumes one record.
Consumes == total' # total

\* A step of Advance that loops back to the next request.
LoopsBack == pc = "yield" /\ pc' = "request"

NextLink(body) == body.links # None /\ Val(body.links).next # None

\* The instant an ISO-8601 `when` denotes, taken as UTC when it has no offset.
InstantOf(c) == c.local - OffsetOf(c.tz)

\* C1: a response whose results collection is empty ends the scan: no further
\* request follows it, whatever its `size` and `_links.next`.
C1_EmptyResultsEndScan ==
  [][(pc = "yield" /\ data.body.results = Some(<<>>) /\ results = <<>>)
       => pc' # "request"]_vars

\* C2: a failed request (HTTP status or transport failure) aborts the run: no
\* further request, no summary line, one diagnostic and exit status 1; the
\* summary and exit status 0 only follow a scan without failed request.
C2_FailedRequestAborts ==
  /\ [](Failed => /\ pc \in {"except", "exited"}
                  /\ (pc = "except" => stdout = <<>> /\ exit_status = None)
                  /\ (pc = "exited" =>
                        /\ stdout \in {<<"HTTP error">>, <<"Network error">>}
                        /\ exit_status = Some(1)))
  /\ []((stdout = Summary \/ exit_status = Some(0)) =>
          /\ ~Failed
          /\ pc = "exited"
          /\ stdout = Summary
          /\ exit_status = Some(0))
  /\ [][Failed => (nreq' = nreq /\ data' = data /\ total' = total)]_vars

C2_Witness ==
  /\ pc = "exited"
  /\ data.status = "http_error"
  /\ nreq = 2
  /\ total > 0
  /\ exit_status = Some(1)

\* C3: a record whose version timestamp is missing or unparsable is counted
\* stale (stale and total both grow by one) and the scan goes on.
C3_MissingTimestampIsStale ==
  [][(Consumes /\ item'.content.when # "iso") =>
       (total' = total + 1 /\ stale' = stale + 1 /\ pc' = "yield")]_vars

\* C4: a record with a parsable timestamp t is counted stale iff
\* now - t > T days (strictly), t taken as UTC when it has no offset.
C4_StrictStaleness ==
  [][(Consumes /\ item'.content.when = "iso") =>
       stale' = stale + (IF now.local - InstantOf(item'.content)
                              > threshold_days * SecondsPerDay
                           THEN 1 ELSE 0)]_vars

C4_Witness ==
  /\ pc = "yield"
  /\ threshold_days = 1
  /\ item.content.when = "iso"
  /\ item.content.tz = "+01:00"
  /\ InstantOf(item.content) = now.local - SecondsPerDay
  /\ total = 1
  /\ stale = 0

\* C5: 0 <= stale <= total at every point of the scan and in the summary, and
\* total is the number of records yielded so far.
C5_StaleAtMostTotal ==
  /\ 0 <= stale
  /\ stale <= total
  /\ total = history.yielded
  /\ 0 <= result.stale
  /\ result.stale <= result.total
  /\ (Returned => result.total = history.yielded /\ result.stale = stale)

C5_Witness ==
  /\ Returned
  /\ result.total = 4
  /\ result.stale = 2
  /\ threshold_days = 1

\* C6: when every response so far was a page of exactly `limit` records and the
\* current one is shorter and has no next link, every record of every response
\* has been yielded once and in order, and the paginator ends without a further
\* request.
C6_FullPagesThenShortPage ==
  /\ [](pc = "yield" => history.page = SubSeq(results, 1, idx))
  /\ [][(/\ pc = "yield"
         /\ idx = Len(results)
         /\ history.full
         /\ SelectResults(data.body) = FirstPresent(data.body)
         /\ Len(FirstPresent(data.body)) < limit
         /\ ~NextLink(data.body))
        => (/\ pc' = "return"
            /\ history.page = FirstPresent(data.body)
            /\ history.yielded = history.received
            /\ nreq' = nreq)]_vars
  /\ [][(pc \in {"return", "print", "exited"}) => (nreq' = nreq)]_vars

C6_Witness ==
  /\ pc = "return"
  /\ limit = 2
  /\ nreq = 3
  /\ history.full
  /\ history.yielded = 5
  /\ history.page = <<<<3, "results", 1>>>>
  /\ ~NextLink(data.body)

\* C7: the records yielded for a response are those of its first present field
\* among results, page, values; `results`, when present, is the one used even
\* when it is empty.
C7_FirstPresentFieldWins ==
  (pc \in {"yield", "return"} /\ data.status = "ok") =>
     /\ Len(history.page) <= Len(FirstPresent(data.body))
     /\ history.page = SubSeq(FirstPresent(data.body), 1, Len(history.page))

\* C8: without config file, or without the username / api_token keys, the
\* session has no authentication configured and requests carry none.
C8_NoKeysNoAuth ==
  (pc # "main" /\ (config.username = None \/ config.api_token = None)) =>
     /\ session.auth = None
     /\ (nreq > 0 => request.auth = None)

\* C9: a scan that yielded no record returns total = 0, stale = 0 and
\* percent_stale = 0.0, for every threshold.
C9_EmptyScanIsZeroPercent ==
  (Returned /\ history.yielded = 0) =>
     result = [total |-> 0, stale |-> 0, percent_stale |-> [num |-> 0, den |-> 1]]

C9_Witness ==
  /\ exit_status = Some(0)
  /\ history.yielded = 0
  /\ threshold_days = 1
  /\ nreq = 1
  /\ data.body.links # None

\* C10: the first request carries start = 0; each later request carries the
\* previous start plus the previous response's `size` when present, else plus
\* the number of records that response returned; a request is issued only after
\* the previous response's records were all yielded.
C10_OffsetAdvance ==
  /\ [][nreq' # nreq =>
          /\ nreq' = nreq + 1
          /\ request'.start = start
          /\ start' = start
          /\ (nreq = 0 => request'.start = 0)
          /\ (nreq > 0 => data = NoData)]_vars
  /\ [][LoopsBack =>
          /\ data.status = "ok"
          /\ history.page = results
          /\ start' = request.start
                        + (IF data.body.size # None
                             THEN Val(data.body.size)
                             ELSE Len(history.page))]_vars
  /\ [][(pc = "request" /\ nreq > 0) => (pc' # "request" /\ nreq' = nreq + 1)]_vars

C10_Witness ==
  /\ pc = "yield"
  /\ nreq = 2
  /\ request.start = 2
  /\ history.yielded = 1

====
